---------------------------- MODULE Spec2Model ----------------------------
(***************************************************************************)
(* Model of src/src/App.tsx (Tome of Games): the catalog held in React     *)
(* state, its mirror in localStorage, the add form and the detail view.    *)
(*                                                                         *)
(* JavaScript values are modelled as follows.                              *)
(*   - An object is a function from its own keys to values.  A key can be  *)
(*     present with the value undefined; reading a missing key also gives  *)
(*     undefined (Get).                                                    *)
(*   - A property value is Undefined (the empty set) or Def(v) (the        *)
(*     singleton {v}), so that values of different types never have to be  *)
(*     compared with each other.                                           *)
(*   - The result of JSON.parse is a tagged value [type, items]: an array  *)
(*     of game objects has type "array"; any other parse result keeps its  *)
(*     type and has no items.                                              *)
(*   - A date string "YYYY-MM-DD" is modelled by its day number, the       *)
(*     millisecond clock divided by MsPerDay.                              *)
(***************************************************************************)
EXTENDS Integers, Sequences, FiniteSets, TLC

\* ------------------------------------------------------------------ bounds
MaxGames == 2      \* largest catalog the add form may grow
MaxNow == 1        \* last reading of the millisecond clock
MsPerDay == 1      \* milliseconds per day (scaled down)
MaxSteps == 5      \* handlers run in one behaviour
MaxInFlight == 2   \* calls of the Metadata Client pending at one time

\* ------------------------------------------------------- JavaScript values
Undefined == {}
Def(v) == {v}
Null == <<>>

Get(o, k) == IF k \in DOMAIN o THEN o[k] ELSE Undefined

\* { ...a, ...b }
Spread(a, b) ==
  [k \in (DOMAIN a) \cup (DOMAIN b) |-> IF k \in DOMAIN b THEN b[k] ELSE a[k]]

JsArray(items) == [type |-> "array", items |-> items]

\* ------------------------------------------------------------ vocabulary
STATUS_OPTIONS == {"want-to-play", "playing", "completed", "dropped"}

\* titles typed into the title inputs
TITLES == {"Hades", "Celeste"}

\* choices of the rating dropdowns: "No rating" and one of the stars
RATINGS == {Undefined, Def(5)}

\* new Date().toISOString().split('T')[0]
IsoDate(ms) == ms \div MsPerDay

\* ------------------------------------------------------------ persistence
\* variant: a serializer that also omits the (possibly empty) notes
StringifyObject_DropsEmpty(o) ==
  [k \in {j \in DOMAIN o : o[j] # Undefined /\ j # "notes"} |-> o[k]]

\* JSON.stringify of one object: keys whose value is undefined are omitted.
StringifyObject(o) == [k \in {j \in DOMAIN o : o[j] # Undefined} |-> o[k]]

\* JSON.stringify(games) for an array of game objects
Stringify(items) == [i \in 1..Len(items) |-> StringifyObject(items[i])]

\* kinds of text the storage key can hold
BlobKinds ==
  {"absent", "empty", "garbage", "null", "number", "object", "badarray",
   "array"}

Blob(kind, items) == [kind |-> kind, items |-> items]

\* variant: a save that leaves out the last game
saveGames_DropsLast(g) ==
  Blob("array", Stringify(SubSeq(g.items, 1, Len(g.items) - 1)))

saveGames(g) == Blob("array", Stringify(g.items))

loadGames(blob) ==
  CASE blob.kind \in {"absent", "empty"} -> JsArray(<<>>)
    [] blob.kind = "garbage" -> JsArray(<<>>)
    [] blob.kind = "array" -> JsArray(blob.items)
    [] OTHER -> [type |-> blob.kind, items |-> <<>>]

\* ------------------------------------------------------------------ state
VARIABLES
  games,          \* useState<Game[]>(loadGames)
  storage,        \* localStorage['gameBacklogData']
  effectPending,  \* the [games] effect has not run since games last changed
  now,            \* the last reading taken of the millisecond clock
  showAddForm,    \* AddGameModal is mounted
  selectedGame,   \* Null or <<game>>: the object handed to GameDetailModal
  isEditing,      \* GameDetailModal state
  editData,       \* GameDetailModal state: Null or <<game>>
  localStatus,    \* GameDetailModal state
  lastOp,         \* history: the handler that ran last
  steps,          \* history: the number of handlers run so far
  searchTerm,         \* useState('')
  selectedPlatforms,  \* useState<string[]>([])
  selectedGenres,     \* useState<string[]>([])
  selectedStatus,     \* useState<string[]>([])
  sortOption,         \* useState('date-newest')
  sortEngine,         \* how Array.prototype.sort hands pairs to its comparator
  apiKey,         \* useState(() => localStorage.getItem('rawg_api_key') || '')
  searchQuery,    \* AddGameModal state
  searchResults,  \* AddGameModal state
  isSearching,    \* AddGameModal state
  searchError,    \* AddGameModal state
  inFlight,       \* the calls of searchGames and getGameDetails not yet settled
  lastCall,       \* history: the call that settled last
  selectedGameData,  \* AddGameModal state: Null or <<rawgGame>>
  formData,          \* AddGameModal state: the staged draft
  keyStorage,        \* localStorage['rawg_api_key']
  keyEffectPending,  \* the [apiKey] effect has not run since apiKey changed
  showApiKeyDialog,  \* ApiKeyDialog is mounted
  inputKey           \* ApiKeyDialog state

\* the state of the catalog, the add form and the detail view
appVars ==
  <<games, storage, effectPending, now, showAddForm, selectedGame, isEditing,
    editData, localStatus, lastOp, steps>>

\* the state behind the filtered, sorted view
viewVars ==
  <<searchTerm, selectedPlatforms, selectedGenres, selectedStatus, sortOption,
    sortEngine>>

\* the state of the search in the add form and of the Metadata Client
\* the credential in memory and in storage, and the dialog that sets it
keyVars == <<apiKey, keyStorage, keyEffectPending, showApiKeyDialog, inputKey>>

\* the selection and the draft of the add form
draftVars == <<selectedGameData, formData>>

clientVars ==
  <<keyVars, draftVars, searchQuery, searchResults, isSearching, searchError,
    inFlight, lastCall>>

vars == <<appVars, viewVars, clientVars>>

\* lastOp: the handler's name, the id it was called with, the status it was
\* called with, and whether the catalog held a game of that id at the call
Op(name, id, status, hit) ==
  [name |-> name, id |-> id, status |-> status, hit |-> hit]

NoOp == Op("none", Undefined, Undefined, FALSE)

Mount == Op("mount", Undefined, Undefined, FALSE)

\* The component tree renders only when games is an array of game objects:
\* games.filter / game.title.toLowerCase throw otherwise.
Rendered == games.type = "array"

\* A handler runs on the rendered tree once the effects of the last commit
\* (of [games] and of [apiKey]) have run.
Idle == Rendered /\ ~effectPending /\ ~keyEffectPending

\* what the clock can show at its next reading: it never runs backwards
Readings == now..MaxNow

\* one more handler runs
Handler == steps < MaxSteps /\ steps' = steps + 1

\* the value of a property that is not undefined
Val(v) == CHOOSE x \in v : TRUE

\* ------------------------------------------------------------------- text
\* the characters of the strings that titles, genres, statuses and the
\* search box hold
Chars(s) ==
  CASE s = "" -> <<>>
    [] s = "Hades" -> <<"H", "a", "d", "e", "s">>
    [] s = "hades" -> <<"h", "a", "d", "e", "s">>
    [] s = "Celeste" -> <<"C", "e", "l", "e", "s", "t", "e">>
    [] s = "Action" -> <<"A", "c", "t", "i", "o", "n">>
    [] s = "Indie" -> <<"I", "n", "d", "i", "e">>
    [] s = "ha" -> <<"h", "a">>
    [] s = "ACT" -> <<"A", "C", "T">>
    [] s = "z" -> <<"z">>
    [] s = " " -> <<" ">>
    [] s = "  " -> <<" ", " ">>
    [] s = " z" -> <<" ", "z">>
    [] s = "zelda" -> <<"z", "e", "l", "d", "a">>
    [] s = "k1" -> <<"k", "1">>
    [] s = "k2" -> <<"k", "2">>
    [] s = "completed" -> <<"c", "o", "m", "p", "l", "e", "t", "e", "d">>
    [] s = "dropped" -> <<"d", "r", "o", "p", "p", "e", "d">>
    [] s = "playing" -> <<"p", "l", "a", "y", "i", "n", "g">>
    [] s = "want-to-play" ->
         <<"w", "a", "n", "t", "-", "t", "o", "-", "p", "l", "a", "y">>

ToLowerChar(c) ==
  CASE c = "A" -> "a"
    [] c = "C" -> "c"
    [] c = "H" -> "h"
    [] c = "I" -> "i"
    [] c = "T" -> "t"
    [] OTHER -> c

\* String.prototype.toLowerCase
toLowerCase(cs) == [i \in 1..Len(cs) |-> ToLowerChar(cs[i])]

\* String.prototype.includes: pattern occurs in text as a substring
includes(text, pattern) ==
  \E i \in 0..(Len(text) - Len(pattern)) :
    SubSeq(text, i + 1, i + Len(pattern)) = pattern

\* variant: a trim that removes leading white space only
trim_LeftOnly(cs) ==
  LET inked == {i \in 1..Len(cs) : cs[i] # " "}
  IN  IF inked = {} THEN cs
      ELSE SubSeq(cs, CHOOSE i \in inked : \A j \in inked : i <= j, Len(cs))

\* String.prototype.trim: what lies between the first and the last character
\* that is not white space
trim(cs) ==
  LET inked == {i \in 1..Len(cs) : cs[i] # " "}
  IN  IF inked = {} THEN <<>>
      ELSE SubSeq(cs, CHOOSE i \in inked : \A j \in inked : i <= j,
                      CHOOSE i \in inked : \A j \in inked : j <= i)

\* the characters above in collation order, case apart
Collation ==
  <<"-", "a", "c", "d", "e", "g", "h", "i", "l", "m", "n", "o", "p", "r", "s",
    "t", "w", "y", "z">>

Rank(c) == CHOOSE i \in 1..Len(Collation) : Collation[i] = ToLowerChar(c)

\* String.prototype.localeCompare: the letters decide first, whatever their
\* case; then the shorter string comes first; then, at the first place where
\* the case differs, the lower-case letter comes first.
localeCompare(a, b) ==
  LET n == IF Len(a) < Len(b) THEN Len(a) ELSE Len(b)
      primary == {i \in 1..n : Rank(a[i]) # Rank(b[i])}
      tertiary == {i \in 1..n : a[i] # b[i]}
      First(S) == CHOOSE i \in S : \A j \in S : i <= j
  IN  IF primary # {}
        THEN IF Rank(a[First(primary)]) < Rank(b[First(primary)])
               THEN -1 ELSE 1
        ELSE IF Len(a) # Len(b)
          THEN IF Len(a) < Len(b) THEN -1 ELSE 1
          ELSE IF tertiary = {} THEN 0
            ELSE IF ToLowerChar(a[First(tertiary)]) = a[First(tertiary)]
              THEN -1 ELSE 1

\* ------------------------------------------------------------------- view
SORT_OPTIONS ==
  {"date-newest", "date-oldest", "title-az", "title-za", "status",
   "rating-high", "rating-low"}

\* game.rating || 0
RatingOrZero(g) ==
  IF Get(g, "rating") = Undefined THEN 0 ELSE Val(Get(g, "rating"))

Title(g) == Chars(Val(Get(g, "title")))

\* variant: the comparator of rating-high is that of rating-low
Compare_RatingHighAscending(option, a, b) ==
  CASE option = "title-az" -> localeCompare(Title(a), Title(b))
    [] option = "title-za" -> localeCompare(Title(b), Title(a))
    [] option = "date-oldest" ->
         IF Val(Get(a, "dateAdded")) > Val(Get(b, "dateAdded")) THEN 1 ELSE -1
    [] option = "date-newest" ->
         IF Val(Get(a, "dateAdded")) < Val(Get(b, "dateAdded")) THEN 1 ELSE -1
    [] option = "status" ->
         localeCompare(Chars(Val(Get(a, "status"))),
                       Chars(Val(Get(b, "status"))))
    [] option = "rating-high" -> RatingOrZero(a) - RatingOrZero(b)
    [] option = "rating-low" -> RatingOrZero(a) - RatingOrZero(b)

\* the comparator that the sort switch passes to sort for each sort option
Compare(option, a, b) ==
  CASE option = "title-az" -> localeCompare(Title(a), Title(b))
    [] option = "title-za" -> localeCompare(Title(b), Title(a))
    [] option = "date-oldest" ->
         IF Val(Get(a, "dateAdded")) > Val(Get(b, "dateAdded")) THEN 1 ELSE -1
    [] option = "date-newest" ->
         IF Val(Get(a, "dateAdded")) < Val(Get(b, "dateAdded")) THEN 1 ELSE -1
    [] option = "status" ->
         localeCompare(Chars(Val(Get(a, "status"))),
                       Chars(Val(Get(b, "status"))))
    [] option = "rating-high" -> RatingOrZero(b) - RatingOrZero(a)
    [] option = "rating-low" -> RatingOrZero(a) - RatingOrZero(b)

\* Array.prototype.sort keeps the order of two elements unless the comparator
\* tells it otherwise, and is free to ask the comparator about (x, y) or about
\* (y, x).  With a comparator that answers the two questions consistently
\* both give the same, stable order; Compare does not for the date options.
SortEngines == {"asks-later-first", "asks-earlier-first"}

\* x, which stood after y, is to pass in front of y
PassesInFront(option, engine, x, y) ==
  IF engine = "asks-later-first" THEN Compare(option, x, y) < 0
  ELSE Compare(option, y, x) > 0

\* x enters sorted from the right and passes every element it must
Insert(option, engine, sorted, x) ==
  LET stops == {k \in 1..Len(sorted) :
                  ~PassesInFront(option, engine, x, sorted[k])}
      p == IF stops = {} THEN 0
           ELSE CHOOSE k \in stops : \A j \in stops : j <= k
  IN  SubSeq(sorted, 1, p) \o <<x>> \o SubSeq(sorted, p + 1, Len(sorted))

RECURSIVE Sort(_, _, _)
Sort(option, engine, items) ==
  IF items = <<>> THEN <<>>
  ELSE Insert(option, engine,
              Sort(option, engine, SubSeq(items, 1, Len(items) - 1)),
              items[Len(items)])

\* array.some(x => other.includes(x))
SomeIn(array, other) ==
  \E i \in 1..Len(array) : \E j \in 1..Len(other) : array[i] = other[j]

matchesSearch(game) ==
  \/ includes(toLowerCase(Title(game)), toLowerCase(Chars(searchTerm)))
  \/ \E i \in 1..Len(Val(Get(game, "genres"))) :
       includes(toLowerCase(Chars(Val(Get(game, "genres"))[i])),
                toLowerCase(Chars(searchTerm)))

\* variant: a game must have every selected platform
matchesPlatforms_All(game) ==
  \A i \in 1..Len(selectedPlatforms) :
    \E j \in 1..Len(Val(Get(game, "platforms"))) :
      Val(Get(game, "platforms"))[j] = selectedPlatforms[i]

matchesPlatforms(game) ==
  \/ Len(selectedPlatforms) = 0
  \/ SomeIn(selectedPlatforms, Val(Get(game, "platforms")))

matchesGenres(game) ==
  \/ Len(selectedGenres) = 0
  \/ SomeIn(selectedGenres, Val(Get(game, "genres")))

matchesStatus(game) ==
  \/ Len(selectedStatus) = 0
  \/ \E i \in 1..Len(selectedStatus) :
       selectedStatus[i] = Val(Get(game, "status"))

\* games.filter(...) of the useMemo
Filtered ==
  SelectSeq(games.items,
            LAMBDA game : /\ matchesSearch(game)
                          /\ matchesPlatforms(game)
                          /\ matchesGenres(game)
                          /\ matchesStatus(game))

\* the view: the filter, then result.slice().sort(...)
filteredGames == Sort(sortOption, sortEngine, Filtered)

\* the games of the view that pickRandomGame chooses from
eligibleGames ==
  SelectSeq(filteredGames,
            LAMBDA game : Get(game, "status")
                            \in {Def("want-to-play"), Def("playing")})

Ids(items) == {Get(items[i], "id") : i \in 1..Len(items)}

\* a and b read the same under every key
FieldsEqual(a, b) ==
  \A k \in (DOMAIN a) \cup (DOMAIN b) : Get(a, k) = Get(b, k)

\* ------------------------------------------------------------- form data
FormData(title, status, rating) ==
  [title |-> Def(title), platforms |-> Def(<<>>), genres |-> Def(<<>>),
   status |-> Def(status), description |-> Def(""), releaseDate |-> Def(""),
   rating |-> rating, notes |-> Def(""), coverUrl |-> Def(""),
   rawgId |-> Undefined, metacriticScore |-> Undefined]

\* the forms submitted: one left at its defaults but for the title, one
\* filled, one with no title and one with a title of white space
DRAFTS ==
  {FormData("Hades", "want-to-play", Undefined),
   FormData("Celeste", "completed", Def(5)),
   FormData("", "want-to-play", Undefined),
   FormData("  ", "playing", Def(5))}

\* the initial formData of AddGameModal, and what clearSelection sets
BlankForm == FormData("", "want-to-play", Undefined)

\* localStorage.getItem('rawg_api_key') || ''
StoredKey == IF keyStorage = Undefined THEN "" ELSE Val(keyStorage)

\* ---------------------------------------------------------- catalog store
\* variant: the date is taken from the reading that gave the id
NewGame_DateOfId(gameData, t1, t2) ==
  Spread(gameData, [id |-> Def(ToString(t1)), dateAdded |-> Def(IsoDate(t1))])

\* newGame of addGame: t1 is the reading of Date.now(), t2 of new Date()
NewGame(gameData, t1, t2) ==
  Spread(gameData, [id |-> Def(ToString(t1)), dateAdded |-> Def(IsoDate(t2))])

\* variant: the updates are merged into every game
updateGame_All(items, gameId, updates) ==
  [i \in 1..Len(items) |-> Spread(items[i], updates)]

\* prev.map(game => game.id === gameId ? { ...game, ...updates } : game)
updateGame(items, gameId, updates) ==
  [i \in 1..Len(items) |->
     IF Get(items[i], "id") = gameId THEN Spread(items[i], updates)
     ELSE items[i]]

\* variant: the filter keeps the matching games instead of the others
deleteGame_Inverted(items, gameId) ==
  SelectSeq(items, LAMBDA g : Get(g, "id") = gameId)

\* prev.filter(game => game.id !== gameId)
deleteGame(items, gameId) ==
  SelectSeq(items, LAMBDA g : Get(g, "id") # gameId)

\* ------------------------------------------------------ detail view state
\* GameDetailModal is mounted while selectedGame is not null.  Its state is
\* initialised from the game prop when it mounts and kept while it stays
\* mounted; the [game.status] effect resets localStatus when the status of
\* the game prop changes.
Select(g) ==
  /\ selectedGame' = <<g>>
  /\ IF selectedGame = Null
       THEN /\ isEditing' = FALSE
            /\ editData' = <<g>>
            /\ localStatus' = Get(g, "status")
       ELSE /\ UNCHANGED <<isEditing, editData>>
            /\ localStatus' =
                 IF Get(selectedGame[1], "status") = Get(g, "status")
                   THEN localStatus
                   ELSE Get(g, "status")

Unselect ==
  /\ selectedGame' = Null
  /\ isEditing' = FALSE
  /\ editData' = Null
  /\ localStatus' = Undefined

\* updates of GameDetailModal.handleStatusChange
StatusUpdates(game, status, today) ==
  IF status = "completed" /\ Get(game, "status") # Def("completed")
    THEN [status |-> Def(status), dateCompleted |-> Def(today)]
    ELSE IF status # "completed"
      THEN [status |-> Def(status), dateCompleted |-> Undefined]
      ELSE [status |-> Def(status)]

\* --------------------------------------------------------- Metadata Client
\* The texts of errors and of the detail field are held as sequences of
\* fragments, cut so that each pattern looked for is a run of fragments.
InvalidKeyPattern == <<"Invalid ", "API key">>

ApiKeyPattern == <<"API key">>

\* what a fetch of the relay can come back with: a rejected fetch, a status
\* that is not ok, a body or contents that are not JSON, and contents that
\* decode to null or to an object
RESPONSES ==
  {"transport-fail", "http-error", "bad-json", "null", "invalid-key",
   "other-detail", "no-results", "results"}

\* one game as the remote catalog describes it in a search result
Summary ==
  [id |-> Def(7), name |-> Def("Hades"), background_image |-> Def("hades.jpg"),
   released |-> Def("2020-09-17"), metacritic |-> Def(93)]

\* JSON.parse(proxyData.contents) when the contents decode to an object
Body(fn, response) ==
  CASE response = "invalid-key" -> [detail |-> Def(<<"Invalid ", "API key">>)]
    [] response = "other-detail" -> [detail |-> Def(<<"Not found.">>)]
    [] response = "no-results" -> [results |-> Def(<<>>)]
    [] response = "results" ->
         IF fn = "searchGames" THEN [results |-> Def(<<Summary>>)]
         ELSE Spread(Summary,
                     [description_raw |-> Def("A rogue-like."),
                      platforms |->
                        Def(<<[platform |-> [id |-> 4, name |-> "PC"]]>>),
                      genres |-> Def(<<[id |-> 4, name |-> "Action"]>>)])

\* how a call of the client ends: searchGames returns an array; what
\* getGameDetails returns is Null or <<data>>
Returns(value) == [kind |-> "returns", value |-> Def(value)]

Throws(message) == [kind |-> "throws", message |-> message]

\* data.detail && data.detail.includes('Invalid API key')
ReportsInvalidKey(data) ==
  /\ Get(data, "detail") # Undefined
  /\ includes(Val(Get(data, "detail")), InvalidKeyPattern)

\* searchGames from the answer of fetch on
SearchOutcome(response) ==
  CASE response = "transport-fail" -> Throws(<<"Failed to fetch">>)
    [] response = "http-error" -> Throws(<<"Search failed: ", "500">>)
    [] response = "bad-json" -> Throws(<<"Unexpected token">>)
    [] response = "null" -> Throws(<<"Cannot read properties of null">>)
    [] OTHER ->
         LET data == Body("searchGames", response)
         IN  IF ReportsInvalidKey(data)
               THEN Throws(<<"Invalid ", "API key",
                             ". Please check your RAWG.io ", "API key", ".">>)
               ELSE Returns(IF Get(data, "results") = Undefined THEN <<>>
                            ELSE Val(Get(data, "results")))

\* getGameDetails from the answer of fetch on
DetailsOutcome(response) ==
  CASE response = "transport-fail" -> Throws(<<"Failed to fetch">>)
    [] response = "http-error" -> Throws(<<"Failed to fetch game details">>)
    [] response = "bad-json" -> Throws(<<"Unexpected token">>)
    [] response = "null" -> Throws(<<"Cannot read properties of null">>)
    [] OTHER ->
         LET data == Body("getGameDetails", response)
         IN  IF ReportsInvalidKey(data)
               THEN Throws(<<"Invalid ", "API key">>)
               ELSE Returns(<<data>>)

\* variant: a search that tests its query without trimming it
searchGamesFetches_NoTrim(query, key) ==
  ~(Chars(query) = <<>> \/ trim(Chars(key)) = <<>>)

\* searchGames gets past its first line: !query.trim() || !apiKey.trim()
searchGamesFetches(query, key) ==
  ~(trim(Chars(query)) = <<>> \/ trim(Chars(key)) = <<>>)

\* getGameDetails gets past its first line: !apiKey.trim()
getGameDetailsFetches(key) == ~(trim(Chars(key)) = <<>>)

\* convertRAWGToGame
convertRAWGToGame(rawgGame) ==
  [title |-> Get(rawgGame, "name"),
   platforms |->
     IF Get(rawgGame, "platforms") = Undefined THEN Def(<<>>)
     ELSE Def([i \in 1..Len(Val(Get(rawgGame, "platforms"))) |->
                 Val(Get(rawgGame, "platforms"))[i].platform.name]),
   genres |->
     IF Get(rawgGame, "genres") = Undefined THEN Def(<<>>)
     ELSE Def([i \in 1..Len(Val(Get(rawgGame, "genres"))) |->
                 Val(Get(rawgGame, "genres"))[i].name]),
   coverUrl |-> Get(rawgGame, "background_image"),
   releaseDate |-> Get(rawgGame, "released"),
   description |-> Get(rawgGame, "description_raw"),
   rawgId |-> Get(rawgGame, "id"),
   metacriticScore |-> Get(rawgGame, "metacritic")]

\* a call that has not settled: the function, who called it, its argument
\* and credential, whether it has issued a fetch, and whether the component
\* that awaits it is still mounted
Call(fn, caller, arg, key, fetched) ==
  [fn |-> fn, caller |-> caller, arg |-> Def(arg), key |-> key,
   fetched |-> fetched, live |-> TRUE]

NoCall ==
  [fn |-> "none", arg |-> Undefined, key |-> "", fetched |-> FALSE,
   outcome |-> Returns(<<>>)]

\* the texts that searchError shows
KeyRequiredMessage ==
  "API key required. Click the settings button to add your RAWG.io API key."

TooShortMessage == "Please enter at least 2 characters"

NoGamesMessage == "No games found. Try different search terms."

InvalidKeyMessage ==
  "Invalid API key. Please check your RAWG.io API key in settings."

RetryMessage == "Search failed. Please try again."

\* AddGameModal leaves the tree: its state is gone, and what its pending
\* calls set later is set on nothing
AddFormUnmounts ==
  /\ searchQuery' = ""
  /\ searchResults' = <<>>
  /\ isSearching' = FALSE
  /\ searchError' = ""
  /\ inFlight' = [i \in 1..Len(inFlight) |->
                    [inFlight[i] EXCEPT
                       !.live = @ /\ inFlight[i].caller = "client"]]
  /\ selectedGameData' = Null
  /\ formData' = BlankForm
  /\ UNCHANGED lastCall

\* ---------------------------------------------------------------- actions
OpenAddForm ==
  /\ Idle
  /\ Handler
  /\ ~showAddForm
  /\ ~showApiKeyDialog
  /\ showAddForm' = TRUE
  /\ lastOp' = NoOp
  /\ UNCHANGED <<games, storage, effectPending, now, selectedGame, isEditing,
                 editData, localStatus>>
  /\ UNCHANGED <<viewVars, clientVars>>

CloseAddForm ==
  /\ Idle
  /\ Handler
  /\ showAddForm
  /\ showAddForm' = FALSE
  /\ lastOp' = NoOp
  /\ UNCHANGED <<games, storage, effectPending, now, selectedGame, isEditing,
                 editData, localStatus>>
  /\ AddFormUnmounts
  /\ UNCHANGED <<viewVars, keyVars>>

\* AddGameModal.handleSubmit: addGame(formData) if the trimmed title is not
\* empty, nothing otherwise.  addGame reads the clock twice: t1 is the
\* reading of Date.now(), t2 the reading of new Date().
AddGame(gameData, t1, t2) ==
  /\ Idle
  /\ Handler
  /\ showAddForm
  /\ IF trim(Chars(Val(gameData.title))) # <<>>
       THEN /\ Len(games.items) < MaxGames
            /\ t1 \in Readings
            /\ t2 \in t1..MaxNow
            /\ games' = JsArray(Append(games.items, NewGame(gameData, t1, t2)))
            /\ now' = t2
            /\ showAddForm' = FALSE
            /\ effectPending' = TRUE
            /\ lastOp' = Op("addGame", Def(ToString(t1)), gameData.status,
                            Def(ToString(t1)) \in Ids(games.items))
            /\ AddFormUnmounts
       ELSE /\ t1 = now
            /\ t2 = now
            /\ lastOp' = Op("submitRejected", Undefined, gameData.status, FALSE)
            /\ UNCHANGED <<games, now, showAddForm, effectPending>>
            /\ UNCHANGED <<searchQuery, searchResults, isSearching,
                           searchError, inFlight, lastCall, draftVars>>
  /\ UNCHANGED <<storage, selectedGame, isEditing, editData, localStatus>>
  /\ UNCHANGED <<viewVars, keyVars>>

\* GameCard onClick.  The card is a div behind the overlay of the detail view
\* (fixed inset-0): it takes a click only while no detail view is open.
CardClick(i) ==
  /\ Idle
  /\ Handler
  /\ selectedGame = Null
  /\ i \in 1..Len(filteredGames)
  /\ Select(filteredGames[i])
  /\ lastOp' = NoOp
  /\ UNCHANGED <<games, storage, effectPending, now, showAddForm>>
  /\ UNCHANGED <<viewVars, clientVars>>

\* GameCard onStatusChange
CardStatusChange(i, status) ==
  /\ Idle
  /\ Handler
  /\ i \in 1..Len(filteredGames)
  /\ Def(status) # Get(filteredGames[i], "status")
  /\ games' = JsArray(updateGame(games.items, Get(filteredGames[i], "id"),
                                 [status |-> Def(status)]))
  /\ effectPending' = TRUE
  /\ lastOp' = Op("cardStatus", Get(filteredGames[i], "id"), Def(status), TRUE)
  /\ UNCHANGED <<storage, now, showAddForm, selectedGame, isEditing, editData,
                 localStatus>>
  /\ UNCHANGED <<viewVars, clientVars>>

\* variant: the random game is drawn from the whole catalog
pickRandomGame_AnyGame(r) ==
  /\ Idle
  /\ Handler
  /\ r \in 1..Len(games.items)
  /\ Select(games.items[r])
  /\ lastOp' = Op("pickRandomGame", Get(games.items[r], "id"), Undefined, TRUE)
  /\ UNCHANGED <<games, storage, effectPending, now, showAddForm>>
  /\ UNCHANGED <<viewVars, clientVars>>

\* r is Math.floor(Math.random() * eligibleGames.length) + 1.  When no game
\* is eligible the handler selects nothing (and the button is disabled).
pickRandomGame(r) ==
  /\ Idle
  /\ Handler
  /\ IF Len(eligibleGames) > 0
       THEN /\ r \in 1..Len(eligibleGames)
            /\ Select(eligibleGames[r])
            /\ lastOp' = Op("pickRandomGame", Get(eligibleGames[r], "id"),
                            Undefined, TRUE)
       ELSE /\ r = 1
            /\ UNCHANGED <<selectedGame, isEditing, editData, localStatus>>
            /\ lastOp' = Op("pickRandomGame", Undefined, Undefined, FALSE)
  /\ UNCHANGED <<games, storage, effectPending, now, showAddForm>>
  /\ UNCHANGED <<viewVars, clientVars>>

\* the status dropdown of GameDetailModal; t is the reading of new Date()
DetailStatusChange(status, t) ==
  /\ Idle
  /\ Handler
  /\ selectedGame # Null
  /\ ~isEditing
  /\ Def(status) # localStatus
  /\ t \in Readings
  /\ (status = "completed" /\ Get(selectedGame[1], "status") # Def("completed"))
       \/ t = now
  /\ localStatus' = Def(status)
  /\ games' = JsArray(updateGame(games.items, Get(selectedGame[1], "id"),
                        StatusUpdates(selectedGame[1], status, IsoDate(t))))
  /\ now' = t
  /\ effectPending' = TRUE
  /\ lastOp' = Op("detailStatus", Get(selectedGame[1], "id"), Def(status),
                  Get(selectedGame[1], "id") \in Ids(games.items))
  /\ UNCHANGED <<storage, showAddForm, selectedGame, isEditing, editData>>
  /\ UNCHANGED <<viewVars, clientVars>>

ToggleEdit ==
  /\ Idle
  /\ Handler
  /\ selectedGame # Null
  /\ isEditing' = ~isEditing
  /\ lastOp' = NoOp
  /\ UNCHANGED <<games, storage, effectPending, now, showAddForm, selectedGame,
                 editData, localStatus>>
  /\ UNCHANGED <<viewVars, clientVars>>

\* the inputs of the edit form: setEditData(prev => ({ ...prev, field }))
EditField(field, value) ==
  /\ Idle
  /\ Handler
  /\ selectedGame # Null
  /\ isEditing
  /\ editData' = <<Spread(editData[1], [k \in {field} |-> value])>>
  /\ lastOp' = NoOp
  /\ UNCHANGED <<games, storage, effectPending, now, showAddForm, selectedGame,
                 isEditing, localStatus>>
  /\ UNCHANGED <<viewVars, clientVars>>

\* GameDetailModal.handleSave
HandleSave ==
  /\ Idle
  /\ Handler
  /\ selectedGame # Null
  /\ isEditing
  /\ games' = JsArray(updateGame(games.items, Get(selectedGame[1], "id"),
                                 editData[1]))
  /\ isEditing' = FALSE
  /\ effectPending' = TRUE
  /\ lastOp' = Op("editSave", Get(selectedGame[1], "id"), Undefined,
                  Get(selectedGame[1], "id") \in Ids(games.items))
  /\ UNCHANGED <<storage, now, showAddForm, selectedGame, editData,
                 localStatus>>
  /\ UNCHANGED <<viewVars, clientVars>>

\* the Cancel button of the edit form
CancelEdit ==
  /\ Idle
  /\ Handler
  /\ selectedGame # Null
  /\ isEditing
  /\ isEditing' = FALSE
  /\ editData' = selectedGame
  /\ lastOp' = NoOp
  /\ UNCHANGED <<games, storage, effectPending, now, showAddForm, selectedGame,
                 localStatus>>
  /\ UNCHANGED <<viewVars, clientVars>>

\* GameDetailModal onDelete -> deleteGame(selectedGame.id)
DeleteGame ==
  /\ Idle
  /\ Handler
  /\ selectedGame # Null
  /\ games' = JsArray(deleteGame(games.items, Get(selectedGame[1], "id")))
  /\ Unselect
  /\ effectPending' = TRUE
  /\ lastOp' = Op("deleteGame", Get(selectedGame[1], "id"), Undefined,
                  Get(selectedGame[1], "id") \in Ids(games.items))
  /\ UNCHANGED <<storage, now, showAddForm>>
  /\ UNCHANGED <<viewVars, clientVars>>

\* GameDetailModal onClose
CloseDetail ==
  /\ Idle
  /\ Handler
  /\ selectedGame # Null
  /\ Unselect
  /\ lastOp' = NoOp
  /\ UNCHANGED <<games, storage, effectPending, now, showAddForm>>
  /\ UNCHANGED <<viewVars, clientVars>>

\* ------------------------------------------------- filter and sort handlers
\* what the search box, the filter buttons and the sort dropdown offer
SEARCH_TERMS == {"", "ha", "ACT"}

PLATFORM_OPTIONS == {"PC", "Mobile"}

GENRE_OPTIONS == {"Indie"}

STATUS_LABELS == {"Currently Playing"}

\* STATUS_OPTIONS.find(opt => opt.value === s)?.label || s
LabelOf(value) ==
  CASE value = "want-to-play" -> "Want to Play"
    [] value = "playing" -> "Currently Playing"
    [] value = "completed" -> "Completed"
    [] value = "dropped" -> "Dropped"
    [] OTHER -> value

\* STATUS_OPTIONS.find(opt => opt.label === label)?.value || label
ValueOf(label) ==
  CASE label = "Want to Play" -> "want-to-play"
    [] label = "Currently Playing" -> "playing"
    [] label = "Completed" -> "completed"
    [] label = "Dropped" -> "dropped"
    [] OTHER -> label

\* FilterSection.toggleOption: the new selection handed to onChange
toggleOption(selected, option) ==
  IF \E i \in 1..Len(selected) : selected[i] = option
    THEN SelectSeq(selected, LAMBDA s : s # option)
    ELSE Append(selected, option)

\* the search box: onChange -> setSearchTerm
SetSearchTerm(text) ==
  /\ Idle
  /\ text # searchTerm
  /\ searchTerm' = text
  /\ UNCHANGED <<selectedPlatforms, selectedGenres, selectedStatus, sortOption,
                 sortEngine>>
  /\ UNCHANGED <<appVars, clientVars>>

TogglePlatform(option) ==
  /\ Idle
  /\ selectedPlatforms' = toggleOption(selectedPlatforms, option)
  /\ UNCHANGED <<searchTerm, selectedGenres, selectedStatus, sortOption,
                 sortEngine>>
  /\ UNCHANGED <<appVars, clientVars>>

ToggleGenre(option) ==
  /\ Idle
  /\ selectedGenres' = toggleOption(selectedGenres, option)
  /\ UNCHANGED <<searchTerm, selectedPlatforms, selectedStatus, sortOption,
                 sortEngine>>
  /\ UNCHANGED <<appVars, clientVars>>

\* the status section shows labels and stores values
ToggleStatus(label) ==
  /\ Idle
  /\ LET selected == [i \in 1..Len(selectedStatus) |->
                        LabelOf(selectedStatus[i])]
         labels == toggleOption(selected, label)
     IN  selectedStatus' = [i \in 1..Len(labels) |-> ValueOf(labels[i])]
  /\ UNCHANGED <<searchTerm, selectedPlatforms, selectedGenres, sortOption,
                 sortEngine>>
  /\ UNCHANGED <<appVars, clientVars>>

\* variant: the sort is applied to the catalog itself, without slice()
SetSortOption_InPlace(option) ==
  /\ Idle
  /\ option # sortOption
  /\ sortOption' = option
  /\ games' = JsArray(Sort(option, sortEngine, games.items))
  /\ effectPending' = (games' # games)
  /\ UNCHANGED <<searchTerm, selectedPlatforms, selectedGenres, selectedStatus,
                 sortEngine>>
  /\ UNCHANGED <<storage, now, showAddForm, selectedGame, isEditing, editData,
                 localStatus, lastOp, steps>>
  /\ UNCHANGED clientVars

\* the sort dropdown: onChange -> setSortOption
SetSortOption(option) ==
  /\ Idle
  /\ option # sortOption
  /\ sortOption' = option
  /\ UNCHANGED <<searchTerm, selectedPlatforms, selectedGenres, selectedStatus,
                 sortEngine>>
  /\ UNCHANGED <<appVars, clientVars>>

\* variant: a Clear All that leaves the search text
clearFilters_KeepsSearch ==
  /\ Idle
  /\ Len(selectedPlatforms) + Len(selectedGenres) + Len(selectedStatus) > 0
  /\ selectedPlatforms' = <<>>
  /\ selectedGenres' = <<>>
  /\ selectedStatus' = <<>>
  /\ lastOp' = Op("clearFilters", Undefined, Undefined, FALSE)
  /\ UNCHANGED <<searchTerm, sortOption, sortEngine>>
  /\ UNCHANGED <<games, storage, effectPending, now, showAddForm, selectedGame,
                 isEditing, editData, localStatus, steps>>
  /\ UNCHANGED clientVars

\* the Clear All button, rendered while one of the three selections is not
\* empty
clearFilters ==
  /\ Idle
  /\ Len(selectedPlatforms) + Len(selectedGenres) + Len(selectedStatus) > 0
  /\ searchTerm' = ""
  /\ selectedPlatforms' = <<>>
  /\ selectedGenres' = <<>>
  /\ selectedStatus' = <<>>
  /\ lastOp' = Op("clearFilters", Undefined, Undefined, FALSE)
  /\ UNCHANGED <<sortOption, sortEngine>>
  /\ UNCHANGED <<games, storage, effectPending, now, showAddForm, selectedGame,
                 isEditing, editData, localStatus, steps>>
  /\ UNCHANGED clientVars

\* ---------------------------------------------------- search in the add form
\* what is typed into the search box of the add form
QUERIES == {"", "z", "  ", "zelda"}

\* the credentials: none, a blank one, a key
KEYS == {"", " ", "k1"}

\* the search box of the add form, disabled while there is no credential
SetSearchQuery(query) ==
  /\ Idle
  /\ Handler
  /\ showAddForm
  /\ selectedGameData = Null
  /\ apiKey # ""
  /\ query # searchQuery
  /\ searchQuery' = query
  /\ lastOp' = NoOp
  /\ UNCHANGED <<games, storage, effectPending, now, showAddForm, selectedGame,
                 isEditing, editData, localStatus>>
  /\ UNCHANGED <<keyVars, draftVars, searchResults, isSearching, searchError,
                 inFlight, lastCall>>
  /\ UNCHANGED viewVars

\* AddGameModal.handleSearch up to its await
handleSearch ==
  IF trim(Chars(apiKey)) = <<>>
    THEN /\ searchError' = KeyRequiredMessage
         /\ UNCHANGED <<searchResults, isSearching, inFlight>>
    ELSE IF trim(Chars(searchQuery)) = <<>> \/ Len(Chars(searchQuery)) < 2
      THEN /\ searchError' = TooShortMessage
           /\ UNCHANGED <<searchResults, isSearching, inFlight>>
      ELSE /\ Len(inFlight) < MaxInFlight
           /\ isSearching' = TRUE
           /\ searchError' = ""
           /\ searchResults' = <<>>
           /\ inFlight' =
                Append(inFlight,
                       Call("searchGames", "handleSearch", searchQuery, apiKey,
                            searchGamesFetches(searchQuery, apiKey)))

\* the Search button, disabled while a search runs, while the query has
\* fewer than two characters and while there is no credential
SearchButton ==
  /\ Idle
  /\ Handler
  /\ showAddForm
  /\ selectedGameData = Null
  /\ ~isSearching
  /\ Len(Chars(searchQuery)) >= 2
  /\ apiKey # ""
  /\ handleSearch
  /\ lastOp' = NoOp
  /\ UNCHANGED <<games, storage, effectPending, now, showAddForm, selectedGame,
                 isEditing, editData, localStatus>>
  /\ UNCHANGED <<keyVars, draftVars, searchQuery, lastCall>>
  /\ UNCHANGED viewVars

\* Enter pressed in the search box: handleKeyPress -> handleSearch
SearchEnter ==
  /\ Idle
  /\ Handler
  /\ showAddForm
  /\ selectedGameData = Null
  /\ apiKey # ""
  /\ handleSearch
  /\ lastOp' = NoOp
  /\ UNCHANGED <<games, storage, effectPending, now, showAddForm, selectedGame,
                 isEditing, editData, localStatus>>
  /\ UNCHANGED <<keyVars, draftVars, searchQuery, lastCall>>
  /\ UNCHANGED viewVars

\* searchGames(query, key) called with any arguments, up to its await
searchGames(query, key) ==
  /\ Rendered
  /\ Handler
  /\ Len(inFlight) < MaxInFlight
  /\ inFlight' = Append(inFlight,
                        Call("searchGames", "client", query, key,
                             searchGamesFetches(query, key)))
  /\ lastOp' = NoOp
  /\ UNCHANGED <<games, storage, effectPending, now, showAddForm, selectedGame,
                 isEditing, editData, localStatus>>
  /\ UNCHANGED <<keyVars, draftVars, searchQuery, searchResults, isSearching,
                 searchError, lastCall>>
  /\ UNCHANGED viewVars

\* getGameDetails(gameId, key) called with any credential, up to its await
getGameDetails(gameId, key) ==
  /\ Rendered
  /\ Handler
  /\ Len(inFlight) < MaxInFlight
  /\ inFlight' = Append(inFlight,
                        Call("getGameDetails", "client", gameId, key,
                             getGameDetailsFetches(key)))
  /\ lastOp' = NoOp
  /\ UNCHANGED <<games, storage, effectPending, now, showAddForm, selectedGame,
                 isEditing, editData, localStatus>>
  /\ UNCHANGED <<keyVars, draftVars, searchQuery, searchResults, isSearching,
                 searchError, lastCall>>
  /\ UNCHANGED viewVars

\* how the call c ends when its fetch, if it made one, comes back with
\* response
Outcome(c, response) ==
  IF c.fn = "searchGames"
    THEN IF c.fetched THEN SearchOutcome(response) ELSE Returns(<<>>)
    ELSE IF c.fetched THEN DetailsOutcome(response) ELSE Returns(Null)

\* variant: a catch that shows the same message for every error
SearchSettles_OneMessage(outcome) ==
  /\ IF outcome.kind = "returns"
       THEN /\ searchResults' = Val(outcome.value)
            /\ searchError' = IF Len(Val(outcome.value)) = 0
                                THEN NoGamesMessage ELSE searchError
       ELSE /\ searchResults' = searchResults
            /\ searchError' = RetryMessage
  /\ isSearching' = FALSE

\* selectGame from its await on: try, catch and the two setters after them
SelectSettles(outcome) ==
  /\ formData' =
       IF outcome.kind = "returns"
         THEN IF Val(outcome.value) # Null
                THEN Spread(formData, convertRAWGToGame(Val(outcome.value)[1]))
                ELSE formData
         ELSE Spread(formData, convertRAWGToGame(Summary))
  /\ searchResults' = <<>>
  /\ searchQuery' = ""
  /\ UNCHANGED selectedGameData

\* handleSearch from its await on: try, catch and finally
SearchSettles(outcome) ==
  /\ IF outcome.kind = "returns"
       THEN /\ searchResults' = Val(outcome.value)
            /\ searchError' = IF Len(Val(outcome.value)) = 0
                                THEN NoGamesMessage ELSE searchError
       ELSE /\ searchResults' = searchResults
            /\ searchError' = IF includes(outcome.message, ApiKeyPattern)
                                THEN InvalidKeyMessage ELSE RetryMessage
  /\ isSearching' = FALSE

\* The i-th pending call settles: a call that made no fetch returns at once,
\* the others when the fetch comes back.  The caller goes on from its await
\* if it is still mounted.
Settle(i, response) ==
  /\ Rendered
  /\ i \in 1..Len(inFlight)
  /\ IF inFlight[i].fetched
       THEN IF inFlight[i].fn = "searchGames" THEN response \in RESPONSES
            ELSE response \in RESPONSES \ {"no-results"}
       ELSE response = "none"
  /\ inFlight' = SubSeq(inFlight, 1, i - 1)
                   \o SubSeq(inFlight, i + 1, Len(inFlight))
  /\ lastCall' = [fn |-> inFlight[i].fn, arg |-> inFlight[i].arg,
                  key |-> inFlight[i].key, fetched |-> inFlight[i].fetched,
                  outcome |-> Outcome(inFlight[i], response)]
  /\ IF inFlight[i].caller = "handleSearch" /\ inFlight[i].live
       THEN /\ SearchSettles(Outcome(inFlight[i], response))
            /\ UNCHANGED <<searchQuery, draftVars>>
       ELSE IF inFlight[i].caller = "selectGame" /\ inFlight[i].live
         THEN /\ SelectSettles(Outcome(inFlight[i], response))
              /\ UNCHANGED <<searchError, isSearching>>
         ELSE UNCHANGED <<searchResults, searchError, isSearching, searchQuery,
                          draftVars>>
  /\ UNCHANGED keyVars
  /\ UNCHANGED <<appVars, viewVars>>

\* --------------------------------------------- the draft of the add form
\* a search result is clicked: selectGame(rawgGame) up to its await
selectGame(k) ==
  /\ Idle
  /\ Handler
  /\ showAddForm
  /\ selectedGameData = Null
  /\ k \in 1..Len(searchResults)
  /\ Len(inFlight) < MaxInFlight
  /\ selectedGameData' = <<searchResults[k]>>
  /\ inFlight' =
       Append(inFlight,
              Call("getGameDetails", "selectGame",
                   Val(Get(searchResults[k], "id")), apiKey,
                   getGameDetailsFetches(apiKey)))
  /\ lastOp' = Op("selectGame", Undefined, Undefined, FALSE)
  /\ UNCHANGED <<games, storage, effectPending, now, showAddForm, selectedGame,
                 isEditing, editData, localStatus>>
  /\ UNCHANGED <<keyVars, formData, searchQuery, searchResults, isSearching,
                 searchError, lastCall>>
  /\ UNCHANGED viewVars

\* the button "+ Add game manually"
ManualEntry ==
  /\ Idle
  /\ Handler
  /\ showAddForm
  /\ selectedGameData = Null
  /\ selectedGameData' = <<[id |-> Def(0), name |-> Def("")]>>
  /\ lastOp' = Op("manualEntry", Undefined, Undefined, FALSE)
  /\ UNCHANGED <<games, storage, effectPending, now, showAddForm, selectedGame,
                 isEditing, editData, localStatus>>
  /\ UNCHANGED <<keyVars, formData, searchQuery, searchResults, isSearching,
                 searchError, inFlight, lastCall>>
  /\ UNCHANGED viewVars

\* the Change button, rendered beside the name of the selected result
clearSelection ==
  /\ Idle
  /\ Handler
  /\ showAddForm
  /\ selectedGameData # Null
  /\ Get(selectedGameData[1], "name") \notin {Undefined, Def("")}
  /\ selectedGameData' = Null
  /\ searchQuery' = ""
  /\ searchResults' = <<>>
  /\ searchError' = ""
  /\ formData' = BlankForm
  /\ lastOp' = Op("clearSelection", Undefined, Undefined, FALSE)
  /\ UNCHANGED <<games, storage, effectPending, now, showAddForm, selectedGame,
                 isEditing, editData, localStatus>>
  /\ UNCHANGED <<keyVars, isSearching, inFlight, lastCall>>
  /\ UNCHANGED viewVars

\* the title input of the form, rendered once something is selected
SetFormTitle(title) ==
  /\ Idle
  /\ Handler
  /\ showAddForm
  /\ selectedGameData # Null
  /\ formData.title # Def(title)
  /\ formData' = Spread(formData, [title |-> Def(title)])
  /\ lastOp' = Op("setFormTitle", Undefined, Undefined, FALSE)
  /\ UNCHANGED <<games, storage, effectPending, now, showAddForm, selectedGame,
                 isEditing, editData, localStatus>>
  /\ UNCHANGED <<keyVars, selectedGameData, searchQuery, searchResults,
                 isSearching, searchError, inFlight, lastCall>>
  /\ UNCHANGED viewVars

\* ------------------------------------------------------ the API key dialog
\* what is typed into the input of the dialog
KEY_INPUTS == {"", " ", "k1", "k2"}

\* inputKey.trim(), as a string
Trimmed(text) == CHOOSE t \in KEY_INPUTS : Chars(t) = trim(Chars(text))

\* the settings button of the header, behind the overlay of any open modal
OpenApiKeyDialog ==
  /\ Idle
  /\ Handler
  /\ ~showAddForm
  /\ selectedGame = Null
  /\ ~showApiKeyDialog
  /\ showApiKeyDialog' = TRUE
  /\ inputKey' = apiKey
  /\ lastOp' = NoOp
  /\ UNCHANGED <<games, storage, effectPending, now, showAddForm, selectedGame,
                 isEditing, editData, localStatus>>
  /\ UNCHANGED <<apiKey, keyStorage, keyEffectPending>>
  /\ UNCHANGED <<draftVars, searchQuery, searchResults, isSearching,
                 searchError, inFlight, lastCall>>
  /\ UNCHANGED viewVars

\* onApiKeyNeeded: the links of the add form shown while there is no key
ApiKeyNeeded ==
  /\ Idle
  /\ Handler
  /\ showAddForm
  /\ selectedGameData = Null
  /\ apiKey = ""
  /\ showAddForm' = FALSE
  /\ AddFormUnmounts
  /\ showApiKeyDialog' = TRUE
  /\ inputKey' = apiKey
  /\ lastOp' = NoOp
  /\ UNCHANGED <<games, storage, effectPending, now, selectedGame, isEditing,
                 editData, localStatus>>
  /\ UNCHANGED <<apiKey, keyStorage, keyEffectPending>>
  /\ UNCHANGED viewVars

\* the input of the dialog: onChange -> setInputKey
SetInputKey(text) ==
  /\ Idle
  /\ Handler
  /\ showApiKeyDialog
  /\ text # inputKey
  /\ inputKey' = text
  /\ lastOp' = NoOp
  /\ UNCHANGED <<games, storage, effectPending, now, showAddForm, selectedGame,
                 isEditing, editData, localStatus>>
  /\ UNCHANGED <<apiKey, keyStorage, keyEffectPending, showApiKeyDialog>>
  /\ UNCHANGED <<draftVars, searchQuery, searchResults, isSearching,
                 searchError, inFlight, lastCall>>
  /\ UNCHANGED viewVars

\* ApiKeyDialog.handleSave: onSave(inputKey.trim()); onClose()
SaveApiKey ==
  /\ Idle
  /\ Handler
  /\ showApiKeyDialog
  /\ apiKey' = Trimmed(inputKey)
  /\ keyEffectPending' = (Trimmed(inputKey) # apiKey)
  /\ showApiKeyDialog' = FALSE
  /\ inputKey' = ""
  /\ lastOp' = Op("saveApiKey", Undefined, Undefined, FALSE)
  /\ UNCHANGED <<games, storage, effectPending, now, showAddForm, selectedGame,
                 isEditing, editData, localStatus>>
  /\ UNCHANGED keyStorage
  /\ UNCHANGED <<draftVars, searchQuery, searchResults, isSearching,
                 searchError, inFlight, lastCall>>
  /\ UNCHANGED viewVars

\* the X and the Cancel button of the dialog
CloseApiKeyDialog ==
  /\ Idle
  /\ Handler
  /\ showApiKeyDialog
  /\ showApiKeyDialog' = FALSE
  /\ inputKey' = ""
  /\ lastOp' = NoOp
  /\ UNCHANGED <<games, storage, effectPending, now, showAddForm, selectedGame,
                 isEditing, editData, localStatus>>
  /\ UNCHANGED <<apiKey, keyStorage, keyEffectPending>>
  /\ UNCHANGED <<draftVars, searchQuery, searchResults, isSearching,
                 searchError, inFlight, lastCall>>
  /\ UNCHANGED viewVars

\* useEffect(() => { if (apiKey) localStorage.setItem(...) }, [apiKey])
ApiKeyEffect ==
  /\ Rendered
  /\ keyEffectPending
  /\ keyStorage' = IF apiKey # "" THEN Def(apiKey) ELSE keyStorage
  /\ keyEffectPending' = FALSE
  /\ UNCHANGED <<apiKey, showApiKeyDialog, inputKey>>
  /\ UNCHANGED <<draftVars, searchQuery, searchResults, isSearching,
                 searchError, inFlight, lastCall>>
  /\ UNCHANGED <<appVars, viewVars>>

\* variant: an effect that writes only a non-empty catalog
PersistEffect_SkipsEmpty ==
  /\ Rendered
  /\ effectPending
  /\ storage' = IF games.items = <<>> THEN storage ELSE saveGames(games)
  /\ effectPending' = FALSE
  /\ UNCHANGED <<games, now, showAddForm, selectedGame, isEditing, editData,
                 localStatus, lastOp, steps>>
  /\ UNCHANGED <<viewVars, clientVars>>

\* useEffect(() => saveGames(games), [games])
PersistEffect ==
  /\ Rendered
  /\ effectPending
  /\ storage' = saveGames(games)
  /\ effectPending' = FALSE
  /\ UNCHANGED <<games, now, showAddForm, selectedGame, isEditing, editData,
                 localStatus, lastOp, steps>>
  /\ UNCHANGED <<viewVars, clientVars>>

\* the page is loaded again: every useState initialiser runs anew
Reload ==
  /\ Idle
  /\ Handler
  /\ games' = loadGames(storage)
  /\ effectPending' = TRUE
  /\ showAddForm' = FALSE
  /\ Unselect
  /\ lastOp' = Mount
  /\ searchTerm' = ""
  /\ selectedPlatforms' = <<>>
  /\ selectedGenres' = <<>>
  /\ selectedStatus' = <<>>
  /\ sortOption' = "date-newest"
  /\ searchQuery' = ""
  /\ searchResults' = <<>>
  /\ isSearching' = FALSE
  /\ searchError' = ""
  /\ inFlight' = <<>>
  /\ selectedGameData' = Null
  /\ formData' = BlankForm
  /\ apiKey' = StoredKey
  /\ showApiKeyDialog' = FALSE
  /\ inputKey' = ""
  /\ UNCHANGED <<storage, now, sortEngine, lastCall, keyStorage,
                 keyEffectPending>>

\* ---------------------------------------------------------- specification
\* What an earlier session can have left in storage: garbage, a value that
\* is no array of games, or the saved catalog of games added before this
\* session's clock started.
StoredGame(slot, status) ==
  StringifyObject(NewGame(FormData(IF slot = 1 THEN "Hades" ELSE "Celeste",
                                   status,
                                   IF slot = 1 THEN Def(5) ELSE Undefined),
                          slot - 3, slot - 3))

InitBlobs ==
  {Blob(k, <<>>) : k \in BlobKinds}
    \cup {Blob("array", <<StoredGame(1, s)>>) : s \in {"playing", "completed"}}
    \cup {Blob("array", <<StoredGame(1, s1), StoredGame(2, s2)>>) :
            s1 \in {"playing", "completed"}, s2 \in {"playing", "completed"}}

\* the initial values of the search box, the filters and the sort dropdown
ViewDefaults ==
  /\ searchTerm = ""
  /\ selectedPlatforms = <<>>
  /\ selectedGenres = <<>>
  /\ selectedStatus = <<>>
  /\ sortOption = "date-newest"

\* the state after construction, given what the storage holds
Mounted ==
  /\ games = loadGames(storage)
  /\ effectPending = TRUE
  /\ now = 0
  /\ showAddForm = FALSE
  /\ selectedGame = Null
  /\ isEditing = FALSE
  /\ editData = Null
  /\ localStatus = Undefined
  /\ lastOp = Mount
  /\ steps = 0
  /\ ViewDefaults
  /\ sortEngine \in SortEngines
  /\ searchQuery = ""
  /\ searchResults = <<>>
  /\ isSearching = FALSE
  /\ searchError = ""
  /\ inFlight = <<>>
  /\ lastCall = NoCall
  /\ selectedGameData = Null
  /\ formData = BlankForm
  /\ apiKey = StoredKey
  /\ keyEffectPending = FALSE
  /\ showApiKeyDialog = FALSE
  /\ inputKey = ""

Init ==
  /\ storage \in InitBlobs
  /\ keyStorage = Undefined
  /\ Mounted

Next ==
  \/ OpenAddForm
  \/ CloseAddForm
  \/ \E d \in DRAFTS, t1 \in 0..MaxNow, t2 \in 0..MaxNow : AddGame(d, t1, t2)
  \/ \E i \in 1..MaxGames : CardClick(i)
  \/ \E i \in 1..MaxGames, s \in STATUS_OPTIONS : CardStatusChange(i, s)
  \/ \E i \in 1..MaxGames : pickRandomGame(i)
  \/ \E s \in STATUS_OPTIONS, t \in 0..MaxNow : DetailStatusChange(s, t)
  \/ ToggleEdit
  \/ \E t \in TITLES : EditField("title", Def(t))
  \/ \E r \in RATINGS : EditField("rating", r)
  \/ HandleSave
  \/ CancelEdit
  \/ DeleteGame
  \/ CloseDetail
  \/ PersistEffect
  \/ Reload

Spec == Init /\ [][Next]_vars

\* ----------------------------------------------- the view, specification
\* a game as an earlier session stored it, with genres and platforms ticked
\* in the add form
ViewGame(id, title, genres, platforms, status, rating, day) ==
  StringifyObject(
    Spread(FormData(title, status, rating),
           [id |-> Def(id), dateAdded |-> Def(day), genres |-> Def(genres),
            platforms |-> Def(platforms)]))

Hades ==
  ViewGame("101", "Hades", <<"Action", "Indie">>, <<"PC">>, "completed",
           Def(5), -2)

\* added on the same day as Hades
Celeste ==
  ViewGame("102", "Celeste", <<"Indie">>, <<"PC", "Mobile">>, "playing",
           Undefined, -2)

\* a second copy of the title, on another platform
HadesMobile ==
  ViewGame("103", "Hades", <<>>, <<"Mobile">>, "playing", Undefined, -1)

\* the catalogs the view is computed on
CATALOGS ==
  {<<Hades, Celeste, HadesMobile>>, <<HadesMobile, Celeste, Hades>>}

ViewInit ==
  /\ storage \in {Blob("array", c) : c \in CATALOGS}
  /\ keyStorage = Undefined
  /\ Mounted

ViewNext ==
  \/ \E text \in SEARCH_TERMS : SetSearchTerm(text)
  \/ \E option \in PLATFORM_OPTIONS : TogglePlatform(option)
  \/ \E option \in GENRE_OPTIONS : ToggleGenre(option)
  \/ \E label \in STATUS_LABELS : ToggleStatus(label)
  \/ \E option \in SORT_OPTIONS : SetSortOption(option)
  \/ clearFilters
  \/ \E r \in 1..Len(games.items) : pickRandomGame(r)
  \/ CloseDetail
  \/ PersistEffect

ViewSpec == ViewInit /\ [][ViewNext]_vars

\* -------------------------------------- the Metadata Client, specification
\* the ids of the remote catalog that details are asked for
EXTERNAL_IDS == {7}

ClientInit ==
  /\ storage = Blob("absent", <<>>)
  /\ keyStorage \in {Undefined, Def("k1")}
  /\ Mounted

ClientNext ==
  \/ OpenAddForm
  \/ CloseAddForm
  \/ PersistEffect
  \/ \E query \in QUERIES : SetSearchQuery(query)
  \/ SearchButton
  \/ SearchEnter
  \/ \E query \in QUERIES, key \in KEYS : searchGames(query, key)
  \/ \E gameId \in EXTERNAL_IDS, key \in KEYS : getGameDetails(gameId, key)
  \/ \E i \in 1..MaxInFlight, response \in RESPONSES \cup {"none"} :
       Settle(i, response)

ClientSpec == ClientInit /\ [][ClientNext]_vars

\* ------------------------------------------- the add form, specification
AddFlowInit ==
  /\ storage = Blob("absent", <<>>)
  /\ keyStorage = Def("k1")
  /\ Mounted

AddFlowNext ==
  \/ OpenAddForm
  \/ CloseAddForm
  \/ PersistEffect
  \/ \E query \in QUERIES : SetSearchQuery(query)
  \/ SearchButton
  \/ SearchEnter
  \/ \E k \in 1..1 : selectGame(k)
  \/ ManualEntry
  \/ clearSelection
  \/ \E title \in TITLES : SetFormTitle(title)
  \/ \E i \in 1..MaxInFlight, response \in RESPONSES \cup {"none"} :
       Settle(i, response)

AddFlowSpec == AddFlowInit /\ [][AddFlowNext]_vars

\* --------------------------------------- the API key dialog, specification
KeyInit ==
  /\ storage = Blob("absent", <<>>)
  /\ keyStorage \in {Undefined, Def("k1")}
  /\ Mounted

KeyNext ==
  \/ OpenApiKeyDialog
  \/ OpenAddForm
  \/ CloseAddForm
  \/ ApiKeyNeeded
  \/ \E text \in KEY_INPUTS : SetInputKey(text)
  \/ SaveApiKey
  \/ CloseApiKeyDialog
  \/ ApiKeyEffect
  \/ PersistEffect
  \/ Reload

KeySpec == KeyInit /\ [][KeyNext]_vars

\* ------------------------------------------------------------------ claims
MutatingOps == {"addGame", "cardStatus", "detailStatus", "editSave",
                "deleteGame"}

\* the games of the catalog that a handler called with id gameId works on
Targets(gameId) ==
  {i \in 1..Len(games.items) : Get(games.items[i], "id") = gameId}

\* C1: no two games of the catalog have the same id.
C1_UniqueIds ==
  \A i, j \in 1..Len(games.items) :
    i # j => Get(games.items[i], "id") # Get(games.items[j], "id")

\* C2: a detail-view status change to completed, made when the catalog held
\* another status for the game, leaves the game with dateCompleted equal to
\* the current date.
C2_CompletedStampsToday ==
  [][(\E t \in 0..MaxNow : DetailStatusChange("completed", t)) =>
       \A i \in Targets(Get(selectedGame[1], "id")) :
         Get(games.items[i], "status") # Def("completed") =>
           Get(games'.items[i], "dateCompleted") = Def(IsoDate(now'))]_vars

\* C3: after a status change to a status other than completed, from the card
\* or from the detail view, the game has no dateCompleted.
C3_NonCompletedClearsDate ==
  (lastOp.name \in {"cardStatus", "detailStatus"}
     /\ lastOp.status # Def("completed")) =>
    \A i \in Targets(lastOp.id) :
      Get(games.items[i], "dateCompleted") = Undefined

\* C4: every game of the catalog that has a dateCompleted has the status
\* completed.
C4_DateOnlyWhenCompleted ==
  \A i \in 1..Len(games.items) :
    Get(games.items[i], "dateCompleted") # Undefined =>
      Get(games.items[i], "status") = Def("completed")

C6_LoadAlwaysList ==
  LET loaded == loadGames(storage)
  IN  /\ loaded.type \in {"array", "badarray"}
      /\ storage.kind # "array" => loaded = JsArray(<<>>)

\* C7: once a game created by add has been persisted, load returns at the
\* game's position a record that reads the same under every field.
C7_AddLoadRoundTrip ==
  (lastOp.name = "addGame" /\ Idle) =>
    LET loaded == loadGames(storage)
        n == Len(games.items)
    IN  /\ loaded.type = "array"
        /\ Len(loaded.items) = n
        /\ FieldsEqual(loaded.items[n], games.items[n])

\* an added game whose rating is absent has been persisted: the object in
\* memory has the key, the stored one does not
C7_Witness ==
  /\ lastOp.name = "addGame"
  /\ Idle
  /\ "rating" \in DOMAIN games.items[Len(games.items)]
  /\ "rating" \notin DOMAIN storage.items[Len(games.items)]
  /\ Get(games.items[Len(games.items)], "description") = Def("")

\* C8: once a remove has been persisted, load returns no record of the
\* removed id; a remove of an id the catalog does not hold leaves the
\* collection as it was.
C8_Remove ==
  [][/\ (DeleteGame /\ Get(selectedGame[1], "id") \notin Ids(games.items))
          => games' = games
     /\ (PersistEffect /\ lastOp.name = "deleteGame")
          => lastOp.id \notin Ids(loadGames(storage').items)]_vars

\* a remove that found its game has been persisted, other games remain
C8_Witness ==
  /\ lastOp.name = "deleteGame"
  /\ lastOp.hit
  /\ Idle
  /\ games.items # <<>>
  /\ lastOp.id \notin Ids(loadGames(storage).items)

\* C9: a card status change, a detail-view status change or an edit save
\* changes neither the id nor the dateAdded of any game.
C9_UpdatesKeepIdAndDateAdded ==
  [][((\E i \in 1..MaxGames, s \in STATUS_OPTIONS : CardStatusChange(i, s))
        \/ (\E s \in STATUS_OPTIONS, t \in 0..MaxNow : DetailStatusChange(s, t))
        \/ HandleSave) =>
       /\ Len(games'.items) = Len(games.items)
       /\ \A i \in 1..Len(games.items) :
            /\ Get(games'.items[i], "id") = Get(games.items[i], "id")
            /\ Get(games'.items[i], "dateAdded")
                 = Get(games.items[i], "dateAdded")]_vars

\* C10: a selected game has an id that is present in the catalog.
C10_SelectedInCatalog ==
  selectedGame # Null => Get(selectedGame[1], "id") \in Ids(games.items)

\* the elements of an array, as a set
Elements(array) == {array[i] : i \in 1..Len(array)}

\* the places of the view at which the game g stands
Places(g) == {k \in 1..Len(filteredGames) : filteredGames[k] = g}

\* the four predicates of the filter, on sets
TextMatches(g) ==
  LET text == toLowerCase(Chars(searchTerm))
  IN  \/ includes(toLowerCase(Chars(Val(Get(g, "title")))), text)
      \/ \E genre \in Elements(Val(Get(g, "genres"))) :
           includes(toLowerCase(Chars(genre)), text)

PlatformMatches(g) ==
  \/ Elements(selectedPlatforms) = {}
  \/ Elements(selectedPlatforms) \cap Elements(Val(Get(g, "platforms"))) # {}

GenreMatches(g) ==
  \/ Elements(selectedGenres) = {}
  \/ Elements(selectedGenres) \cap Elements(Val(Get(g, "genres"))) # {}

StatusMatches(g) ==
  \/ Elements(selectedStatus) = {}
  \/ Val(Get(g, "status")) \in Elements(selectedStatus)

\* C11: the view holds exactly the games of the catalog that satisfy the
\* text, platform, genre and status predicates together, each of them once.
C11_ViewExactlyMatching ==
  /\ \A g \in Elements(filteredGames) : g \in Elements(games.items)
  /\ \A g \in Elements(games.items) :
       IF TextMatches(g) /\ PlatformMatches(g) /\ GenreMatches(g)
            /\ StatusMatches(g)
         THEN Cardinality(Places(g)) = 1
         ELSE Places(g) = {}

\* a search text in another case than the genre it matches and a platform
\* filter of two platforms keep the one game that has one of them
C11_Witness ==
  /\ searchTerm = "ACT"
  /\ Elements(selectedPlatforms) = {"PC", "Mobile"}
  /\ Len(games.items) = 3
  /\ Elements(filteredGames) = {Hades}

\* the key that the sort option in force orders the games by
SortKey(g) ==
  CASE sortOption \in {"title-az", "title-za"} -> Get(g, "title")
    [] sortOption \in {"date-oldest", "date-newest"} -> Get(g, "dateAdded")
    [] sortOption = "status" -> Get(g, "status")
    [] sortOption \in {"rating-high", "rating-low"} -> Def(RatingOrZero(g))

\* C12: under every sort option, two games of the filtered result that have
\* equal sort keys stand in the view in the order in which they stand in the
\* filtered result.
C12_StableSort ==
  \A i, j \in 1..Len(Filtered) :
    (i < j /\ SortKey(Filtered[i]) = SortKey(Filtered[j])) =>
      \A a \in Places(Filtered[i]), b \in Places(Filtered[j]) : a < b

\* a's key is at most b's: strings in the order of localeCompare, dates and
\* ratings as numbers, an absent rating as 0
KeyAtMost(a, b) ==
  CASE sortOption \in {"title-az", "title-za"} ->
         localeCompare(Chars(Val(Get(a, "title"))),
                       Chars(Val(Get(b, "title")))) <= 0
    [] sortOption \in {"date-oldest", "date-newest"} ->
         Val(Get(a, "dateAdded")) <= Val(Get(b, "dateAdded"))
    [] sortOption = "status" ->
         localeCompare(Chars(Val(Get(a, "status"))),
                       Chars(Val(Get(b, "status")))) <= 0
    [] sortOption \in {"rating-high", "rating-low"} ->
         (IF Get(a, "rating") = Undefined THEN 0 ELSE Val(Get(a, "rating")))
           <= (IF Get(b, "rating") = Undefined THEN 0
               ELSE Val(Get(b, "rating")))

Pickable == {Def("want-to-play"), Def("playing")}

\* C14: a random pick selects a game of the view whose status in the catalog
\* is want-to-play or playing, and selects nothing when the view holds no
\* such game.
C14_PickOnlyEligible ==
  [][(\E r \in 1..Len(games.items) : pickRandomGame(r)) =>
       IF \E g \in Elements(filteredGames) : Get(g, "status") \in Pickable
         THEN /\ selectedGame' # Null
              /\ selectedGame'[1] \in Elements(filteredGames)
              /\ \E i \in 1..Len(games.items) :
                   /\ games.items[i] = selectedGame'[1]
                   /\ Get(games.items[i], "status") \in Pickable
         ELSE selectedGame' = selectedGame]_vars

\* a pick has selected a game that is being played from a view that also
\* shows a completed game
C14_Witness ==
  /\ lastOp.name = "pickRandomGame"
  /\ lastOp.hit
  /\ selectedGame # Null
  /\ Get(selectedGame[1], "status") = Def("playing")
  /\ \E g \in Elements(filteredGames) : Get(g, "status") = Def("completed")

\* a pick has run on a view without a game to pick and has selected nothing
C14_WitnessNone ==
  /\ lastOp.name = "pickRandomGame"
  /\ ~lastOp.hit
  /\ filteredGames # <<>>
  /\ selectedGame = Null

\* C15: a change of the search text, of a filter or of the sort option (each
\* recomputes the view) and a random pick leave the catalog as it was, and
\* leave nothing to be written to the storage.
C15_ViewLeavesCatalog ==
  [][((\E text \in SEARCH_TERMS : SetSearchTerm(text))
        \/ (\E option \in PLATFORM_OPTIONS : TogglePlatform(option))
        \/ (\E option \in GENRE_OPTIONS : ToggleGenre(option))
        \/ (\E label \in STATUS_LABELS : ToggleStatus(label))
        \/ (\E option \in SORT_OPTIONS : SetSortOption(option))
        \/ clearFilters
        \/ (\E r \in 1..Len(games.items) : pickRandomGame(r))) =>
       /\ games' = games
       /\ storage' = storage
       /\ effectPending' = effectPending]_vars

\* a pick has run on a view that is filtered and in another order than the
\* catalog, and the storage still holds the catalog
C15_Witness ==
  /\ lastOp.name = "pickRandomGame"
  /\ searchTerm = "ha"
  /\ sortOption = "rating-high"
  /\ Len(filteredGames) = 2
  /\ filteredGames[1] = games.items[3]
  /\ storage = saveGames(games)
  /\ ~effectPending

\* the title of the form is empty or holds white space only
BlankTitle(gameData) ==
  \A i \in 1..Len(Chars(Val(gameData.title))) :
    Chars(Val(gameData.title))[i] = " "

\* C16: a submit of the add form whose title is empty or white space adds no
\* game: catalog, stored blob and pending write are as before, and the form
\* stays open.
C16_BlankTitleRejected ==
  [][\A d \in DRAFTS, t1 \in 0..MaxNow, t2 \in 0..MaxNow :
       (AddGame(d, t1, t2) /\ BlankTitle(d)) =>
         /\ games' = games
         /\ storage' = storage
         /\ effectPending' = effectPending
         /\ showAddForm' = showAddForm]_vars

\* a form with a blank title has been submitted to a catalog that holds
\* games, and the form is still open
C16_Witness ==
  /\ lastOp.name = "submitRejected"
  /\ showAddForm
  /\ games.items # <<>>
  /\ storage = saveGames(games)

\* C17: an add appends one record, which has the attributes of the form and
\* the current date as dateAdded, after the records the catalog held, which
\* stay as they were.
C17_AddAppendsOne ==
  [][\A d \in DRAFTS, t1 \in 0..MaxNow, t2 \in 0..MaxNow :
       (AddGame(d, t1, t2) /\ ~BlankTitle(d)) =>
         /\ Len(games'.items) = Len(games.items) + 1
         /\ SubSeq(games'.items, 1, Len(games.items)) = games.items
         /\ \A k \in DOMAIN d : Get(games'.items[Len(games'.items)], k) = d[k]
         /\ Get(games'.items[Len(games'.items)], "dateAdded")
              = Def(IsoDate(now'))]_vars

\* a filled form has been added, a day after the clock's first reading, to a
\* catalog that held a game
C17_Witness ==
  /\ lastOp.name = "addGame"
  /\ Len(games.items) = 2
  /\ Get(games.items[2], "rating") = Def(5)
  /\ IsoDate(now) > 0
  /\ lastOp.id = Def(ToString(0))
  /\ Get(games.items[2], "dateAdded") = Def(IsoDate(now))

\* C18: an update (the step of a status change from a card or from the detail
\* view, or of an edit save, called with the id lastOp records) keeps the number and the order of the records, leaves every
\* record of another id as it was, and leaves the whole catalog as it was
\* when no record has the id.
C18_UpdateOnlyMatching ==
  [][(steps' # steps
        /\ lastOp'.name \in {"cardStatus", "detailStatus", "editSave"}) =>
       /\ Len(games'.items) = Len(games.items)
       /\ \A i \in 1..Len(games.items) :
            Get(games.items[i], "id") # lastOp'.id =>
              games'.items[i] = games.items[i]
       /\ lastOp'.id \notin Ids(games.items) => games' = games]_vars

\* an edit save has changed one of two games
C18_Witness ==
  /\ lastOp.name = "editSave"
  /\ lastOp.hit
  /\ Len(games.items) = 2
  /\ Get(games.items[1], "id") # Get(games.items[2], "id")
  /\ storage.kind = "array"
  /\ Stringify(games.items) # storage.items

\* an update has been called with an id that the catalog does not hold
C18_WitnessAbsent ==
  /\ lastOp.name \in {"detailStatus", "editSave"}
  /\ ~lastOp.hit
  /\ games.items # <<>>

\* the string is empty or holds white space only
IsBlank(s) == \A i \in 1..Len(Chars(s)) : Chars(s)[i] = " "

\* the call c was made with a blank query or a blank credential
BlankCall(c) ==
  IF c.fn = "searchGames" THEN IsBlank(Val(c.arg)) \/ IsBlank(c.key)
  ELSE IsBlank(c.key)

\* C19: a call of searchGames with a blank query or a blank credential, and
\* a call of getGameDetails with a blank credential, issues no request, and
\* returns the empty list, respectively null.
C19_BlankNoRequest ==
  /\ \A i \in 1..Len(inFlight) : BlankCall(inFlight[i]) => ~inFlight[i].fetched
  /\ (lastCall.fn # "none" /\ BlankCall(lastCall)) =>
       /\ ~lastCall.fetched
       /\ lastCall.outcome
            = IF lastCall.fn = "searchGames" THEN Returns(<<>>)
              ELSE Returns(Null)

\* a search for white space with a credential has settled
C19_Witness ==
  /\ lastCall.fn = "searchGames"
  /\ lastCall.arg = Def("  ")
  /\ lastCall.key = "k1"
  /\ ~lastCall.fetched
  /\ lastCall.outcome = Returns(<<>>)

\* a search with a credential of white space, and a call for details without
\* a credential, have settled
C19_WitnessKey ==
  \/ /\ lastCall.fn = "searchGames"
     /\ lastCall.arg = Def("zelda")
     /\ lastCall.key = " "
     /\ ~lastCall.fetched
  \/ /\ lastCall.fn = "getGameDetails"
     /\ lastCall.key = ""
     /\ lastCall.outcome = Returns(Null)

C20_WitnessNetwork ==
  /\ showAddForm
  /\ lastCall.fn = "searchGames"
  /\ lastCall.outcome = Throws(<<"Search failed: ", "500">>)
  /\ searchError = RetryMessage
  /\ ~isSearching

\* the fields that the edit form of the detail view offers
EditedFields == {"title", "description", "notes", "rating"}

\* C23: an edit save changes at most the title, the description, the notes
\* and the rating of the game it is called for; in particular the status and
\* the dateCompleted that the catalog holds for the game stay as they were.
C23_SaveKeepsStatus ==
  [][HandleSave =>
       \A i \in Targets(Get(selectedGame[1], "id")) :
         \A k \in ((DOMAIN games.items[i]) \cup (DOMAIN games'.items[i]))
                    \ EditedFields :
           Get(games'.items[i], k) = Get(games.items[i], k)]_vars

\* C24: whenever a step leaves no persistence effect pending, the stored
\* blob is the serialization of the catalog in memory; and the effect that
\* runs on a blob that did not parse replaces it by the serialization of the
\* empty catalog.
C24_NothingLost ==
  [][/\ ~effectPending' =>
          /\ storage'.kind = "array"
          /\ storage'.items = Stringify(games'.items)
     /\ (PersistEffect /\ storage.kind = "garbage") =>
          storage' = Blob("array", <<>>)]_vars

\* the catalog holds a game added in this session, an edit save or a delete
\* has run last, and the effect has written the catalog
C24_Witness ==
  /\ steps >= 4
  /\ lastOp.name \in {"editSave", "deleteGame"}
  /\ lastOp.hit
  /\ ~effectPending
  /\ games.items # <<>>
  /\ storage.items = Stringify(games.items)
  /\ \E i \in 1..Len(games.items) :
       Get(games.items[i], "id") \in {Def(ToString(t)) : t \in 0..MaxNow}

\* the effect has run after start-up and the storage holds the empty catalog
C24_WitnessStartup ==
  /\ steps = 0
  /\ lastOp = Mount
  /\ ~effectPending
  /\ storage = Blob("array", <<>>)

\* C27: clearFilters empties the search text and the three selections and
\* leaves the sort option and the catalog as they were; and in every state
\* with an empty search text and empty selections, the state it leads to
\* among them, every game of the catalog is in the view exactly once.
C27_ClearShowsAll ==
  /\ [][clearFilters =>
          /\ searchTerm' = ""
          /\ selectedPlatforms' = <<>>
          /\ selectedGenres' = <<>>
          /\ selectedStatus' = <<>>
          /\ sortOption' = sortOption
          /\ games' = games]_vars
  /\ [](/\ searchTerm = ""
        /\ selectedPlatforms = <<>>
        /\ selectedGenres = <<>>
        /\ selectedStatus = <<>>
        => /\ Len(filteredGames) = Len(games.items)
           /\ \A g \in Elements(games.items) :
                Cardinality(Places(g))
                  = Cardinality({k \in 1..Len(games.items) :
                                   games.items[k] = g}))

\* Clear All has run with a sort option chosen, and the view shows the three
\* games of the catalog
C27_Witness ==
  /\ lastOp.name = "clearFilters"
  /\ searchTerm = ""
  /\ sortOption = "title-az"
  /\ Len(games.items) = 3
  /\ Len(filteredGames) = 3

\* the outcome of a detail fetch is a detail record: a value that is not
\* null and describes a game
Delivers(outcome) ==
  /\ outcome.kind = "returns"
  /\ Val(outcome.value) # Null
  /\ Get(Val(outcome.value)[1], "name") # Undefined

\* the fields of the draft that a summary fills
SummaryFields ==
  {"title", "coverUrl", "releaseDate", "rawgId", "metacriticScore"}

\* C21: when the detail fetch started by selecting a search result settles
\* without delivering a detail record, the add form stays open and the
\* title, the cover, the release date, the external id and the critic score
\* of the draft are those of the selected summary.
C21_SummaryFallback ==
  [][\A i \in 1..MaxInFlight, response \in RESPONSES \cup {"none"} :
       (/\ Settle(i, response)
        /\ inFlight[i].caller = "selectGame"
        /\ inFlight[i].live
        /\ selectedGameData # Null
        /\ ~Delivers(Outcome(inFlight[i], response)))
       => /\ showAddForm'
          /\ \A k \in SummaryFields :
               Get(formData', k)
                 = Get(convertRAWGToGame(selectedGameData[1]), k)]_vars

\* the requests of the Metadata Client that are on the wire
OnTheWire == {i \in 1..Len(inFlight) : inFlight[i].fetched}

\* C22: at most one request of the Metadata Client is in flight at any time.
C22_OneRequestInFlight == Cardinality(OnTheWire) <= 1

\* C26: after Change, and until the user selects another result, types or
\* does anything else, the draft is at its blank defaults, whatever response
\* arrives in between.
C26_ClearedDraftStaysBlank ==
  lastOp.name = "clearSelection" => formData = BlankForm

\* C25: once the credential saved from the API key dialog has been through
\* its persistence effect, the credential in storage equals the credential
\* in memory, a blank one included.
C25_StoredKeyIsSavedKey ==
  (lastOp.name = "saveApiKey" /\ ~keyEffectPending) => StoredKey = apiKey

=============================================================================
